---- MODULE Spec2Model ----
(***************************************************************************)
(* The image-storage web client: the backend facade (src/api/appwrite.ts,  *)
(* kept in src/unnamed/part_000), the Home page controller, the            *)
(* UploadPicture control and the ImageCard delete action, over the         *)
(* external blob store and document store they call.                       *)
(*                                                                         *)
(* Every facade operation is an async function: it runs up to its next     *)
(* `await` of a backend call, the backend executes the call at some later  *)
(* moment, and the function resumes with the response at a later moment    *)
(* still.  A call in flight is a record of the sequence `calls`.           *)
(***************************************************************************)
EXTENDS Integers, Sequences, FiniteSets, TLC

\* ------------------------------------------------------------------ bounds
MaxSelections == 2
MaxDeletes == 1
MaxKeys == 2
MaxFailures == 1
MaxFetches == 2
MaxCalls == 3
MaxTime == 1500
TickMs == 500
MaxCardDeletes == 2

\* The delay of the debounce timer (setTimeout(..., 1000)).
DebounceDelay == 1000

\* ----------------------------------------------------------------- values
\* Strings are sequences of characters.
StrA == <<"a">>
StrAB == <<"a", "b">>
StrB == <<"b">>
FileNames == {StrA, StrAB}
Terms == {<<>>, StrA, StrAB, StrB}

\* An optional value: null/undefined is the empty sequence.
None == <<>>
Some(v) == <<v>>
Get(o) == o[1]

\* JS `!x` of an identifier string: null, undefined and "" (modelled as id 0).
Falsy(o) == o = None \/ o = Some(0)

\* The arguments of a facade call, one shape for the five operations.
NoArgs ==
  [imageId |-> None, imageName |-> None, createdAt |-> None,
   documentId |-> None, query |-> <<>>, file |-> None]

\* Return values of the facade.
NumberVal(n) == [t |-> "number", n |-> n, docs |-> <<>>]
ArrayVal(s) == [t |-> "array", n |-> 0, docs |-> s]
IdVal(i) == [t |-> "string", n |-> i, docs |-> <<>>]
NullVal == [t |-> "null", n |-> 0, docs |-> <<>>]
Undefined == [t |-> "undefined", n |-> 0, docs |-> <<>>]

\* Date.prototype.toISOString and storage.getFileView: the stored forms of
\* the creation time and of the blob's identifier.
toISOString(t) == [iso |-> t]
getFileView(id) == [view |-> id]

\* ------------------------------------------------- requests and responses
NoQuery == [m |-> "none", attr |-> "", value |-> <<>>]
QueryStartsWith(attr, v) == [m |-> "startsWith", attr |-> attr, value |-> v]
QueryEqual(attr, v) == [m |-> "equal", attr |-> attr, value |-> v]
NoData ==
  [imageId |-> 0, imageName |-> <<>>, createdAt |-> toISOString(0),
   imageUrl |-> getFileView(0)]
NoReq == [api |-> "none", query |-> NoQuery, id |-> 0, name |-> <<>>, data |-> NoData]
ListDocuments(q) == [NoReq EXCEPT !.api = "listDocuments", !.query = q]
ListFiles(q) == [NoReq EXCEPT !.api = "listFiles", !.query = q]
CreateFile(f) == [NoReq EXCEPT !.api = "createFile", !.name = f.name]
CreateDocument(d) == [NoReq EXCEPT !.api = "createDocument", !.data = d]
DeleteDocument(id) == [NoReq EXCEPT !.api = "deleteDocument", !.id = id]
DeleteFile(id) == [NoReq EXCEPT !.api = "deleteFile", !.id = id]

NoResp == [st |-> "none", total |-> 0, documents |-> <<>>, id |-> 0]
OkResp == [NoResp EXCEPT !.st = "ok"]
ErrResp == [NoResp EXCEPT !.st = "err"]

\* What an async function does when it is entered or resumed: it awaits a
\* backend call, returns a value, or throws (its promise rejects).
Await(req) == [k |-> "await", req |-> req, val |-> Undefined]
Return(v) == [k |-> "return", req |-> NoReq, val |-> v]
Throw == [k |-> "throw", req |-> NoReq, val |-> Undefined]

\* ------------------------------------------------------------- the facade
\* Each operation is given the number pc of awaits it has passed (0: it is
\* entered) and the response resp of the call it awaited last.  A failed
\* backend call throws at the await, inside the operation's try block.

GetTotalPicturesCountZero(args, pc, resp, t) ==
  IF pc = 0 THEN Await(ListDocuments(NoQuery)) ELSE Return(NumberVal(0))

getTotalPicturesCount(args, pc, resp, t) ==
  IF pc = 0 THEN Await(ListDocuments(NoQuery))
  ELSE IF resp.st = "err" THEN Return(NumberVal(0))
  ELSE Return(NumberVal(resp.total))

\* response.documents.map(doc => ({documentId: doc.$id, ...}))
ToImage(doc) ==
  [documentId |-> doc.id, imageId |-> doc.imageId, imageName |-> doc.imageName,
   createdAt |-> doc.createdAt, imageUrl |-> doc.imageUrl]

FetchPicturesEqual(args, pc, resp, t) ==
  IF pc = 0
  THEN IF args.query # <<>>
       THEN Await(ListDocuments(QueryEqual("imageName", args.query)))
       ELSE Await(ListDocuments(NoQuery))
  ELSE IF resp.st = "err" THEN Return(Undefined)
  ELSE Return(ArrayVal([k \in 1..Len(resp.documents) |-> ToImage(resp.documents[k])]))

FetchPicturesRethrow(args, pc, resp, t) ==
  IF pc = 0
  THEN IF args.query # <<>>
       THEN Await(ListDocuments(QueryStartsWith("imageName", args.query)))
       ELSE Await(ListDocuments(NoQuery))
  ELSE IF resp.st = "err" THEN Throw
  ELSE Return(ArrayVal([k \in 1..Len(resp.documents) |-> ToImage(resp.documents[k])]))

fetchPictures(args, pc, resp, t) ==
  IF pc = 0
  THEN IF args.query # <<>>
       THEN Await(ListDocuments(QueryStartsWith("imageName", args.query)))
       ELSE Await(ListDocuments(NoQuery))
  ELSE IF resp.st = "err" THEN Return(Undefined)
  ELSE Return(ArrayVal([k \in 1..Len(resp.documents) |-> ToImage(resp.documents[k])]))

UploadPictureNoCheck(args, pc, resp, t) ==
  CASE pc = 0 -> Await(ListFiles(QueryEqual("name", Get(args.file).name)))
    [] pc = 1 -> IF resp.st = "err" THEN Return(NullVal)
                 ELSE Await(CreateFile(Get(args.file)))
    [] OTHER -> IF resp.st = "err" THEN Return(NullVal) ELSE Return(IdVal(resp.id))

UploadPictureChecksRecords(args, pc, resp, t) ==
  CASE pc = 0 -> Await(ListDocuments(QueryEqual("imageName", Get(args.file).name)))
    [] pc = 1 -> IF resp.st = "err" THEN Return(NullVal)
                 ELSE IF resp.total > 0 THEN Return(NullVal)
                 ELSE Await(CreateFile(Get(args.file)))
    [] OTHER -> IF resp.st = "err" THEN Return(NullVal) ELSE Return(IdVal(resp.id))

uploadPicture(args, pc, resp, t) ==
  CASE pc = 0 -> Await(ListFiles(QueryEqual("name", Get(args.file).name)))
    [] pc = 1 -> IF resp.st = "err" THEN Return(NullVal)
                 ELSE IF resp.total > 0 THEN Return(NullVal)
                 ELSE Await(CreateFile(Get(args.file)))
    [] OTHER -> IF resp.st = "err" THEN Return(NullVal) ELSE Return(IdVal(resp.id))

UpdatePictureDatabaseNoFutureCheck(args, pc, resp, t) ==
  IF pc = 0
  THEN IF \/ args.imageId = None
          \/ args.imageName = None
          \/ args.createdAt = None
       THEN Return(Undefined)
       ELSE Await(CreateDocument(
              [imageId |-> Get(args.imageId), imageName |-> Get(args.imageName),
               createdAt |-> toISOString(Get(args.createdAt)),
               imageUrl |-> getFileView(Get(args.imageId))]))
  ELSE Return(Undefined)

updatePictureDatabase(args, pc, resp, t) ==
  IF pc = 0
  THEN IF \/ args.imageId = None
          \/ args.imageName = None
          \/ args.createdAt = None
          \/ Get(args.createdAt) > t
       THEN Return(Undefined)
       ELSE Await(CreateDocument(
              [imageId |-> Get(args.imageId), imageName |-> Get(args.imageName),
               createdAt |-> toISOString(Get(args.createdAt)),
               imageUrl |-> getFileView(Get(args.imageId))]))
  ELSE Return(Undefined)

DeletePictureBlobFirst(args, pc, resp, t) ==
  CASE pc = 0 -> IF Falsy(args.imageId) \/ Falsy(args.documentId)
                 THEN Return(Undefined)
                 ELSE Await(DeleteFile(Get(args.imageId)))
    [] pc = 1 -> IF resp.st = "err" THEN Return(Undefined)
                 ELSE Await(DeleteDocument(Get(args.documentId)))
    [] OTHER -> Return(Undefined)

DeletePictureIgnoresRecordFailure(args, pc, resp, t) ==
  CASE pc = 0 -> IF Falsy(args.imageId) \/ Falsy(args.documentId)
                 THEN Return(Undefined)
                 ELSE Await(DeleteDocument(Get(args.documentId)))
    [] pc = 1 -> Await(DeleteFile(Get(args.imageId)))
    [] OTHER -> Return(Undefined)

deletePicture(args, pc, resp, t) ==
  CASE pc = 0 -> IF Falsy(args.imageId) \/ Falsy(args.documentId)
                 THEN Return(Undefined)
                 ELSE Await(DeleteDocument(Get(args.documentId)))
    [] pc = 1 -> IF resp.st = "err" THEN Return(Undefined)
                 ELSE Await(DeleteFile(Get(args.imageId)))
    [] OTHER -> Return(Undefined)

Facade(op, args, pc, resp, t) ==
  CASE op = "getTotalPicturesCount" -> getTotalPicturesCount(args, pc, resp, t)
    [] op = "fetchPictures" -> fetchPictures(args, pc, resp, t)
    [] op = "uploadPicture" -> uploadPicture(args, pc, resp, t)
    [] op = "updatePictureDatabase" -> updatePictureDatabase(args, pc, resp, t)
    [] op = "deletePicture" -> deletePicture(args, pc, resp, t)

\* ------------------------------------------------------------------ state
VARIABLES
  files,                \* the blob store: a set of [id, name]
  documents,            \* the document collection, in creation order
  nextId,               \* the next identifier unique() gives
  now,                  \* Date.now(), in milliseconds
  failures,             \* backend calls that have failed (network, permission)
  calls,                \* the facade calls in flight, in the order they began
  totalImageNumber,     \* Home state
  searchImage,
  debouncedSearchTerm,
  loading,
  refreshFetch,
  imageList,
  fetchDeps,            \* the dependencies the fetch effect ran with last
  timers,               \* the pending debounce timeouts: [term, due]
  lastKeyAt,            \* when searchImage was set last
  toUpload,             \* UploadPicture state
  image,
  selections,           \* file selections made so far
  deletes,              \* delete buttons clicked so far
  keys,                 \* keystrokes typed so far
  callNo,               \* direct facade calls made so far
  ret                   \* what the last direct facade call returned

backendVars == <<files, documents, nextId>>
homeVars ==
  <<totalImageNumber, searchImage, debouncedSearchTerm, loading, refreshFetch,
    imageList, fetchDeps, timers, lastKeyAt>>
uploadVars == <<toUpload, image>>
userVars == <<selections, deletes, keys>>
directVars == <<callNo, ret>>
vars ==
  <<files, documents, nextId, now, failures, calls, totalImageNumber,
    searchImage, debouncedSearchTerm, loading, refreshFetch, imageList,
    fetchDeps, timers, lastKeyAt, toUpload, image, selections, deletes, keys,
    callNo, ret>>

\* A call in flight: the operation, its arguments, the awaits it has passed,
\* the backend call it awaits and that call's response, whether a backend
\* call of it has failed, and who awaits its result.
NoCtx == [k |-> "none", total0 |-> 0]
Ctx(k) == [NoCtx EXCEPT !.k = k]
Call(op, args, ctx) ==
  [op |-> op, args |-> args, pc |-> 1, req |-> Facade(op, args, 0, NoResp, now).req,
   resp |-> NoResp, failed |-> FALSE, ctx |-> ctx]
Entered(op, args) == Facade(op, args, 0, NoResp, now)
Resumed(c) == Facade(c.op, c.args, c.pc, c.resp, now)
Remove(s, i) == [k \in 1..(Len(s) - 1) |-> IF k < i THEN s[k] ELSE s[k + 1]]
InFlight(k) == {i \in DOMAIN calls : calls[i].ctx.k = k}

\* ------------------------------------------------------------ the backend
\* Query.startsWith(attribute, value) and Query.equal(attribute, value).
StartsWith(s, p) == Len(p) <= Len(s) /\ SubSeq(s, 1, Len(p)) = p
Matches(q, v) ==
  CASE q.m = "startsWith" -> StartsWith(v, q.value)
    [] q.m = "equal" -> v = q.value
    [] OTHER -> TRUE
listDocumentsIn(docs, q) ==
  LET found == SelectSeq(docs, LAMBDA d : Matches(q, d.imageName))
  IN [OkResp EXCEPT !.total = Len(found), !.documents = found]
listDocuments(q) == listDocumentsIn(documents, q)
listFiles(q) ==
  [OkResp EXCEPT !.total = Cardinality({f \in files : Matches(q, f.name)})]
HasDocument(id) == \E k \in DOMAIN documents : documents[k].id = id
HasFile(id) == \E f \in files : f.id = id

\* The backend executes the call that call i awaits.
BackendExec(i) ==
  /\ i \in DOMAIN calls
  /\ calls[i].resp.st = "none"
  /\ LET c == calls[i]
         r == c.req
         answer(resp) ==
           calls' = [calls EXCEPT ![i].resp = resp,
                                  ![i].failed = c.failed \/ resp.st = "err"]
     IN CASE r.api = "listDocuments" ->
               /\ answer(listDocuments(r.query))
               /\ UNCHANGED backendVars
          [] r.api = "listFiles" ->
               /\ answer(listFiles(r.query))
               /\ UNCHANGED backendVars
          [] r.api = "createFile" ->
               /\ files' = files \cup {[id |-> nextId, name |-> r.name]}
               /\ nextId' = nextId + 1
               /\ answer([OkResp EXCEPT !.id = nextId])
               /\ UNCHANGED documents
          [] r.api = "createDocument" ->
               /\ documents' = Append(documents,
                    [id |-> nextId, imageId |-> r.data.imageId,
                     imageName |-> r.data.imageName, createdAt |-> r.data.createdAt,
                     imageUrl |-> r.data.imageUrl])
               /\ nextId' = nextId + 1
               /\ answer([OkResp EXCEPT !.id = nextId])
               /\ UNCHANGED files
          [] r.api = "deleteDocument" ->
               IF HasDocument(r.id)
               THEN /\ documents' = SelectSeq(documents, LAMBDA d : d.id # r.id)
                    /\ answer(OkResp)
                    /\ UNCHANGED <<files, nextId>>
               ELSE /\ answer(ErrResp)
                    /\ UNCHANGED backendVars
          [] r.api = "deleteFile" ->
               IF HasFile(r.id)
               THEN /\ files' = {f \in files : f.id # r.id}
                    /\ answer(OkResp)
                    /\ UNCHANGED <<documents, nextId>>
               ELSE /\ answer(ErrResp)
                    /\ UNCHANGED backendVars
  /\ UNCHANGED <<now, failures, homeVars, uploadVars, userVars, directVars>>

\* The call that call i awaits fails (network, permission): nothing is done.
BackendFail(i) ==
  /\ i \in DOMAIN calls
  /\ calls[i].resp.st = "none"
  /\ failures < MaxFailures
  /\ failures' = failures + 1
  /\ calls' = [calls EXCEPT ![i].resp = ErrResp, ![i].failed = TRUE]
  /\ UNCHANGED <<backendVars, now, homeVars, uploadVars, userVars, directVars>>

\* A facade operation resumes with the response and awaits its next call.
FacadeResume(i) ==
  /\ i \in DOMAIN calls
  /\ calls[i].resp.st # "none"
  /\ Resumed(calls[i]).k = "await"
  /\ calls' = [calls EXCEPT ![i].pc = calls[i].pc + 1,
                            ![i].req = Resumed(calls[i]).req,
                            ![i].resp = NoResp]
  /\ UNCHANGED <<backendVars, now, failures, homeVars, uploadVars, userVars, directVars>>

\* Time passes.
Tick ==
  /\ now + TickMs <= MaxTime
  /\ now' = now + TickMs
  /\ UNCHANGED <<backendVars, failures, calls, homeVars, uploadVars, userVars, directVars>>

\* ------------------------------------------------- direct calls of the facade
\* The facade called by itself, one call at a time, with any arguments; ret
\* is what the last call returned, and nothing while a call is in flight.
NoRet == [no |-> 0, op |-> "none", args |-> NoArgs, val |-> Undefined,
          threw |-> FALSE, failed |-> FALSE, at |-> 0, requests |-> 0]
Ids == 0..(nextId - 1)
Instants == {t \in {now - TickMs, now, now + TickMs} : t >= 0}
DirectArgs(op) ==
  CASE op = "getTotalPicturesCount" -> {NoArgs}
    [] op = "fetchPictures" -> {[NoArgs EXCEPT !.query = q] : q \in Terms}
    [] op = "uploadPicture" ->
         {[NoArgs EXCEPT !.file = Some([name |-> n, sel |-> 0])] : n \in FileNames}
    [] op = "updatePictureDatabase" ->
         {[NoArgs EXCEPT !.imageId = i, !.imageName = n, !.createdAt = t] :
            i \in {None} \cup {Some(x) : x \in 1..nextId},
            n \in {None} \cup {Some(x) : x \in FileNames},
            t \in {None} \cup {Some(x) : x \in Instants}}
    [] op = "deletePicture" ->
         {[NoArgs EXCEPT !.imageId = i, !.documentId = d] :
            i \in {None} \cup {Some(x) : x \in Ids},
            d \in {None} \cup {Some(x) : x \in Ids}}
Operations ==
  {"getTotalPicturesCount", "fetchPictures", "uploadPicture",
   "updatePictureDatabase", "deletePicture"}

Returned(op, args, out, failed, requests) ==
  [no |-> callNo + 1, op |-> op, args |-> args, val |-> out.val,
   threw |-> out.k = "throw", failed |-> failed, at |-> now, requests |-> requests]

DirectCall(op, args) ==
  /\ InFlight("direct") = {}
  /\ callNo < MaxCalls
  /\ IF Entered(op, args).k = "await"
     THEN /\ calls' = Append(calls, Call(op, args, Ctx("direct")))
          /\ ret' = NoRet
          /\ UNCHANGED callNo
     ELSE /\ ret' = Returned(op, args, Entered(op, args), FALSE, 0)
          /\ callNo' = callNo + 1
          /\ UNCHANGED calls
  /\ UNCHANGED <<backendVars, now, failures, homeVars, uploadVars, userVars>>

DirectReturn(i) ==
  /\ i \in InFlight("direct")
  /\ calls[i].resp.st # "none"
  /\ Resumed(calls[i]).k # "await"
  /\ ret' = Returned(calls[i].op, calls[i].args, Resumed(calls[i]),
                     calls[i].failed, calls[i].pc)
  /\ callNo' = callNo + 1
  /\ calls' = Remove(calls, i)
  /\ UNCHANGED <<backendVars, now, failures, homeVars, uploadVars, userVars>>

FacadeInit ==
  /\ files = {}
  /\ documents = <<>>
  /\ nextId = 1
  /\ now = 0
  /\ failures = 0
  /\ calls = <<>>
  /\ totalImageNumber = 0
  /\ searchImage = <<>>
  /\ debouncedSearchTerm = <<>>
  /\ loading = FALSE
  /\ refreshFetch = FALSE
  /\ imageList = <<>>
  /\ fetchDeps = <<<<>>, 0, FALSE>>
  /\ timers = {}
  /\ lastKeyAt = 0
  /\ toUpload = FALSE
  /\ image = None
  /\ selections = 0
  /\ deletes = 0
  /\ keys = 0
  /\ callNo = 0
  /\ ret = NoRet

FacadeNext ==
  \/ \E op \in Operations : \E args \in DirectArgs(op) : DirectCall(op, args)
  \/ \E i \in DOMAIN calls : DirectReturn(i)
  \/ \E i \in DOMAIN calls : FacadeResume(i)
  \/ \E i \in DOMAIN calls : BackendExec(i)
  \/ \E i \in DOMAIN calls : BackendFail(i)
  \/ Tick

FacadeSpec == FacadeInit /\ [][FacadeNext]_vars

\* ------------------------------------------------------------------- Home
\* getAllImages, once fetchPictures has settled: setImageList.
GetAllImagesKeepsListOnFailure(out, list) ==
  IF out.k = "throw" \/ out.val.t = "undefined" THEN list
  ELSE IF Len(out.val.docs) = 0 THEN <<>>
  ELSE out.val.docs

getAllImages(out, list) ==
  IF out.k = "throw" THEN list
  ELSE IF out.val.t = "undefined" \/ Len(out.val.docs) = 0 THEN <<>>
  ELSE out.val.docs

\* getAllImages(...).then(() => setLoading(false)).
FetchEffectThenOnSuccess(out, flag) ==
  IF out.k = "throw" \/ out.val.t = "undefined" \/ Len(out.val.docs) = 0
  THEN flag ELSE FALSE
fetchEffectThen(out, flag) == FALSE

\* The dependencies of the fetch effect.
Deps == <<debouncedSearchTerm, totalImageNumber, refreshFetch>>

\* Home renders with changed dependencies and its fetch effect runs:
\* getAllImages(debouncedSearchTerm) sets loading and calls fetchPictures.
HomeRender ==
  /\ Deps # fetchDeps
  /\ Cardinality(InFlight("getAllImages")) < MaxFetches
  /\ fetchDeps' = Deps
  /\ loading' = TRUE
  /\ calls' = Append(calls,
       Call("fetchPictures", [NoArgs EXCEPT !.query = debouncedSearchTerm],
            Ctx("getAllImages")))
  /\ UNCHANGED <<backendVars, now, failures, totalImageNumber, searchImage,
                 debouncedSearchTerm, refreshFetch, imageList, timers, lastKeyAt,
                 uploadVars, userVars, directVars>>

GetAllImagesDoneUnlessSuperseded(i) ==
  /\ i \in InFlight("getAllImages")
  /\ calls[i].resp.st # "none"
  /\ Resumed(calls[i]).k # "await"
  /\ imageList' =
       IF \E j \in InFlight("getAllImages") : j > i THEN imageList
       ELSE getAllImages(Resumed(calls[i]), imageList)
  /\ loading' = fetchEffectThen(Resumed(calls[i]), loading)
  /\ calls' = Remove(calls, i)
  /\ UNCHANGED <<backendVars, now, failures, totalImageNumber, searchImage,
                 debouncedSearchTerm, refreshFetch, fetchDeps, timers, lastKeyAt,
                 uploadVars, userVars, directVars>>

\* fetchPictures settles: getAllImages sets the list, then loading is reset.
GetAllImagesDone(i) ==
  /\ i \in InFlight("getAllImages")
  /\ calls[i].resp.st # "none"
  /\ Resumed(calls[i]).k # "await"
  /\ imageList' = getAllImages(Resumed(calls[i]), imageList)
  /\ loading' = fetchEffectThen(Resumed(calls[i]), loading)
  /\ calls' = Remove(calls, i)
  /\ UNCHANGED <<backendVars, now, failures, totalImageNumber, searchImage,
                 debouncedSearchTerm, refreshFetch, fetchDeps, timers, lastKeyAt,
                 uploadVars, userVars, directVars>>

\* The cleanup of the debounce effect: clearTimeout(handler).
ClearTimeoutForgotten(pending) == pending
clearTimeout(pending) == {}

\* onChange of the search field: setSearchImage; the debounce effect's
\* cleanup clears the pending timeout and the effect sets a new one.
Keystroke(v) ==
  /\ keys < MaxKeys
  /\ v # searchImage
  /\ keys' = keys + 1
  /\ searchImage' = v
  /\ lastKeyAt' = now
  /\ timers' = clearTimeout(timers) \cup {[term |-> v, due |-> now + DebounceDelay]}
  /\ UNCHANGED <<backendVars, now, failures, calls, totalImageNumber,
                 debouncedSearchTerm, loading, refreshFetch, imageList, fetchDeps,
                 uploadVars, selections, deletes, directVars>>

\* A debounce timeout fires: setDebouncedSearchTerm(searchImage), with the
\* searchImage the effect that set it ran with.
TimerFire(t) ==
  /\ t \in timers
  /\ now >= t.due
  /\ timers' = timers \ {t}
  /\ debouncedSearchTerm' = t.term
  /\ UNCHANGED <<backendVars, now, failures, calls, totalImageNumber, searchImage,
                 loading, refreshFetch, imageList, fetchDeps, lastKeyAt,
                 uploadVars, userVars, directVars>>

\* ---------------------------------------------------------- UploadPicture
\* The mount-time count settles: setTotalImageNumber(total) while mounted.
MountCountDone(i) ==
  /\ i \in InFlight("mount")
  /\ calls[i].resp.st # "none"
  /\ Resumed(calls[i]).k # "await"
  /\ totalImageNumber' =
       IF Resumed(calls[i]).k = "return" THEN Resumed(calls[i]).val.n
       ELSE totalImageNumber
  /\ calls' = Remove(calls, i)
  /\ UNCHANGED <<backendVars, now, failures, searchImage, debouncedSearchTerm,
                 loading, refreshFetch, imageList, fetchDeps, timers, lastKeyAt,
                 uploadVars, userVars, directVars>>

\* setTotalImageNumber((prev) => prev + 1)
IncrementStale(prev, ctx) == ctx.total0 + 1
increment(prev, ctx) == prev + 1

\* The upload effect, with dependencies toUpload and image (handleUpload
\* changes when image does): it runs when a dependency differs from the
\* one of the render before, and calls handleUpload if toUpload is set.
UploadEffectIgnoresImage(before, after) == before[1] # after[1] /\ after[1]
uploadEffect(before, after) == before # after /\ after[1]

\* handleUpload().then(() => setToUpload(false)).finally(() => setImage(null)):
\* handleUpload catches what it awaits, so both callbacks run.
UploadEffectThenOnImageId(out, flag) ==
  IF out.k = "return" /\ out.val.t = "string" THEN FALSE ELSE flag
uploadEffectThen(out, flag) == FALSE
uploadEffectFinally(out, img) == None

\* handleFileChange: setImage, setToUpload(true); the upload effect runs
\* with the new image and calls handleUpload, which calls uploadPicture.
FileSelect(n) ==
  /\ selections < MaxSelections
  /\ selections' = selections + 1
  /\ image' = Some([name |-> n, sel |-> selections + 1])
  /\ toUpload' = TRUE
  /\ calls' =
       IF uploadEffect(<<toUpload, image>>, <<toUpload', image'>>)
       THEN Append(calls,
              Call("uploadPicture", [NoArgs EXCEPT !.file = image'],
                   [Ctx("handleUpload") EXCEPT !.total0 = totalImageNumber]))
       ELSE calls
  /\ UNCHANGED <<backendVars, now, failures, homeVars, deletes, keys, directVars>>

\* handleUpload resumes after uploadPicture: without an imageId it returns,
\* and the effect clears toUpload and image; with one it calls
\* updatePictureDatabase(imageId, image.name, new Date()).
HandleUploadUploaded(i) ==
  /\ i \in InFlight("handleUpload")
  /\ calls[i].op = "uploadPicture"
  /\ calls[i].resp.st # "none"
  /\ Resumed(calls[i]).k # "await"
  /\ LET c == calls[i]
         out == Resumed(c)
         args == [NoArgs EXCEPT !.imageId = Some(out.val.n),
                                !.imageName = Some(Get(c.args.file).name),
                                !.createdAt = Some(now)]
     IN IF out.k = "throw" \/ out.val.t = "null" \/ out.val.n = 0
        THEN /\ calls' = Remove(calls, i)
             /\ toUpload' = uploadEffectThen(out, toUpload)
             /\ image' = uploadEffectFinally(out, image)
             /\ UNCHANGED totalImageNumber
        ELSE IF Entered("updatePictureDatabase", args).k = "await"
        THEN /\ calls' = [calls EXCEPT ![i] =
                  [Call("updatePictureDatabase", args, c.ctx) EXCEPT
                     !.failed = c.failed]]
             /\ UNCHANGED <<toUpload, image, totalImageNumber>>
        ELSE /\ calls' = Remove(calls, i)
             /\ totalImageNumber' =
                  IF Entered("updatePictureDatabase", args).k = "return"
                  THEN increment(totalImageNumber, c.ctx)
                  ELSE totalImageNumber
             /\ toUpload' = uploadEffectThen(out, toUpload)
             /\ image' = uploadEffectFinally(out, image)
  /\ UNCHANGED <<backendVars, now, failures, searchImage, debouncedSearchTerm,
                 loading, refreshFetch, imageList, fetchDeps, timers, lastKeyAt,
                 userVars, directVars>>

\* handleUpload resumes after updatePictureDatabase: the counter is
\* incremented, and the effect clears toUpload and image.
HandleUploadPersisted(i) ==
  /\ i \in InFlight("handleUpload")
  /\ calls[i].op = "updatePictureDatabase"
  /\ calls[i].resp.st # "none"
  /\ Resumed(calls[i]).k # "await"
  /\ totalImageNumber' =
       IF Resumed(calls[i]).k = "return"
       THEN increment(totalImageNumber, calls[i].ctx)
       ELSE totalImageNumber
  /\ calls' = Remove(calls, i)
  /\ toUpload' = uploadEffectThen(Resumed(calls[i]), toUpload)
  /\ image' = uploadEffectFinally(Resumed(calls[i]), image)
  /\ UNCHANGED <<backendVars, now, failures, searchImage, debouncedSearchTerm,
                 loading, refreshFetch, imageList, fetchDeps, timers, lastKeyAt,
                 userVars, directVars>>

\* -------------------------------------------------------------- ImageCard
\* setRefreshFetch((prev) => !prev)
flip(prev) == ~prev

\* The delete button of card k (cards are shown while loading is false):
\* handleDelete calls deletePicture(id, documentId).  At most max buttons
\* are clicked.
DeleteClickWithin(k, max) ==
  /\ ~loading
  /\ k \in DOMAIN imageList
  /\ deletes < max
  /\ deletes' = deletes + 1
  /\ LET args == [NoArgs EXCEPT !.imageId = Some(imageList[k].imageId),
                                !.documentId = Some(imageList[k].documentId)]
     IN IF Entered("deletePicture", args).k = "await"
        THEN /\ calls' = Append(calls, Call("deletePicture", args, Ctx("handleDelete")))
             /\ UNCHANGED refreshFetch
        ELSE /\ refreshFetch' =
                  IF Entered("deletePicture", args).k = "return"
                  THEN flip(refreshFetch) ELSE refreshFetch
             /\ UNCHANGED calls
  /\ UNCHANGED <<backendVars, now, failures, totalImageNumber, searchImage,
                 debouncedSearchTerm, loading, imageList, fetchDeps, timers,
                 lastKeyAt, uploadVars, selections, keys, directVars>>

DeleteClick(k) == DeleteClickWithin(k, MaxDeletes)

\* handleDelete resumes after deletePicture: the refresh flag is flipped.
HandleDeleteDone(i) ==
  /\ i \in InFlight("handleDelete")
  /\ calls[i].resp.st # "none"
  /\ Resumed(calls[i]).k # "await"
  /\ refreshFetch' =
       IF Resumed(calls[i]).k = "return" THEN flip(refreshFetch) ELSE refreshFetch
  /\ calls' = Remove(calls, i)
  /\ UNCHANGED <<backendVars, now, failures, totalImageNumber, searchImage,
                 debouncedSearchTerm, loading, imageList, fetchDeps, timers,
                 lastKeyAt, uploadVars, userVars, directVars>>

\* ---------------------------------------------------------- the whole page
\* The page right after it is mounted: the effects have run once, so the
\* count and the first fetch are in flight, loading is set and the debounce
\* timeout of the empty search term is pending.
Init ==
  /\ files = {}
  /\ documents = <<>>
  /\ nextId = 1
  /\ now = 0
  /\ failures = 0
  /\ calls = <<Call("getTotalPicturesCount", NoArgs, Ctx("mount")),
               Call("fetchPictures", NoArgs, Ctx("getAllImages"))>>
  /\ totalImageNumber = 0
  /\ searchImage = <<>>
  /\ debouncedSearchTerm = <<>>
  /\ loading = TRUE
  /\ refreshFetch = FALSE
  /\ imageList = <<>>
  /\ fetchDeps = <<<<>>, 0, FALSE>>
  /\ timers = {[term |-> <<>>, due |-> DebounceDelay]}
  /\ lastKeyAt = 0
  /\ toUpload = FALSE
  /\ image = None
  /\ selections = 0
  /\ deletes = 0
  /\ keys = 0
  /\ callNo = 0
  /\ ret = NoRet

\* The page while the search field is left alone: files are selected, cards
\* are deleted, and the lists are fetched with the empty search term.
Next ==
  \/ \E n \in FileNames : FileSelect(n)
  \/ \E k \in DOMAIN imageList : DeleteClick(k)
  \/ HomeRender
  \/ \E i \in DOMAIN calls : BackendExec(i)
  \/ \E i \in DOMAIN calls : BackendFail(i)
  \/ \E i \in DOMAIN calls : FacadeResume(i)
  \/ \E i \in DOMAIN calls : GetAllImagesDone(i)
  \/ \E i \in DOMAIN calls : MountCountDone(i)
  \/ \E i \in DOMAIN calls : HandleUploadUploaded(i)
  \/ \E i \in DOMAIN calls : HandleUploadPersisted(i)
  \/ \E i \in DOMAIN calls : HandleDeleteDone(i)

Spec == Init /\ [][Next]_vars

\* The page while only files are selected: no card is deleted.
UploadNext ==
  \/ \E n \in FileNames : FileSelect(n)
  \/ HomeRender
  \/ \E i \in DOMAIN calls : BackendExec(i)
  \/ \E i \in DOMAIN calls : BackendFail(i)
  \/ \E i \in DOMAIN calls : FacadeResume(i)
  \/ \E i \in DOMAIN calls : GetAllImagesDone(i)
  \/ \E i \in DOMAIN calls : MountCountDone(i)
  \/ \E i \in DOMAIN calls : HandleUploadUploaded(i)
  \/ \E i \in DOMAIN calls : HandleUploadPersisted(i)

UploadSpec == Init /\ [][UploadNext]_vars

\* The same when every backend call is answered at last and every function
\* that awaits an answer is resumed at last.
FairUploadSpec ==
  /\ UploadSpec
  /\ WF_vars(\E i \in DOMAIN calls : BackendExec(i))
  /\ WF_vars(\E i \in DOMAIN calls : FacadeResume(i))
  /\ WF_vars(\E i \in DOMAIN calls : HandleUploadUploaded(i))
  /\ WF_vars(\E i \in DOMAIN calls : HandleUploadPersisted(i))

\* The page over a store that holds two pictures, "a" and "b", while the
\* user types in the search field and deletes cards.
SeedFiles == {[id |-> 1, name |-> StrA], [id |-> 2, name |-> StrB]}
SeedDocuments ==
  <<[id |-> 3, imageId |-> 1, imageName |-> StrA, createdAt |-> toISOString(0),
     imageUrl |-> getFileView(1)],
    [id |-> 4, imageId |-> 2, imageName |-> StrB, createdAt |-> toISOString(0),
     imageUrl |-> getFileView(2)]>>

SearchInit ==
  /\ files = SeedFiles
  /\ documents = SeedDocuments
  /\ nextId = 5
  /\ now = 0
  /\ failures = 0
  /\ calls = <<Call("getTotalPicturesCount", NoArgs, Ctx("mount")),
               Call("fetchPictures", NoArgs, Ctx("getAllImages"))>>
  /\ totalImageNumber = 0
  /\ searchImage = <<>>
  /\ debouncedSearchTerm = <<>>
  /\ loading = TRUE
  /\ refreshFetch = FALSE
  /\ imageList = <<>>
  /\ fetchDeps = <<<<>>, 0, FALSE>>
  /\ timers = {[term |-> <<>>, due |-> DebounceDelay]}
  /\ lastKeyAt = 0
  /\ toUpload = FALSE
  /\ image = None
  /\ selections = 0
  /\ deletes = 0
  /\ keys = 0
  /\ callNo = 0
  /\ ret = NoRet

SearchNext ==
  \/ \E v \in Terms : Keystroke(v)
  \/ \E t \in timers : TimerFire(t)
  \/ Tick
  \/ HomeRender
  \/ \E k \in DOMAIN imageList : DeleteClick(k)
  \/ \E i \in DOMAIN calls : BackendExec(i)
  \/ \E i \in DOMAIN calls : BackendFail(i)
  \/ \E i \in DOMAIN calls : FacadeResume(i)
  \/ \E i \in DOMAIN calls : GetAllImagesDone(i)
  \/ \E i \in DOMAIN calls : MountCountDone(i)
  \/ \E i \in DOMAIN calls : HandleDeleteDone(i)

SearchSpec == SearchInit /\ [][SearchNext]_vars

\* The same page when every backend call is answered at last and every
\* settled fetch is resumed at last.
FairSearchSpec ==
  /\ SearchSpec
  /\ WF_vars(\E i \in DOMAIN calls : BackendExec(i))
  /\ WF_vars(\E i \in DOMAIN calls : GetAllImagesDone(i))

\* The page over the same two pictures while the search field is left
\* alone and the delete buttons of the cards shown are clicked, the same
\* card's or another's, while earlier deletes are still in flight.
DeleteNext ==
  \/ \E k \in DOMAIN imageList : DeleteClickWithin(k, MaxCardDeletes)
  \/ HomeRender
  \/ \E i \in DOMAIN calls : BackendExec(i)
  \/ \E i \in DOMAIN calls : BackendFail(i)
  \/ \E i \in DOMAIN calls : FacadeResume(i)
  \/ \E i \in DOMAIN calls : GetAllImagesDone(i)
  \/ \E i \in DOMAIN calls : MountCountDone(i)
  \/ \E i \in DOMAIN calls : HandleDeleteDone(i)

DeleteSpec == SearchInit /\ [][DeleteNext]_vars

\* =================================================================== claims
\* What fetchPictures(term) returns over the store docs when nothing fails.
SearchIn(docs, term) ==
  LET args == [NoArgs EXCEPT !.query = term]
      req == fetchPictures(args, 0, NoResp, 0).req
  IN fetchPictures(args, 1, listDocumentsIn(docs, req.query), 0).val.docs

UploadFlows == InFlight("handleUpload")

\* C1, as stated: an upload flow of a new name in which every backend call
\* succeeds ends with the displayed total exactly 1 higher than it was when
\* the file was selected, whatever interleaves with it.
C1_TotalOneHigherThanAtSelection ==
  [][\A i \in DOMAIN calls :
       (HandleUploadPersisted(i) /\ ~calls[i].failed)
         => totalImageNumber' = calls[i].ctx.total0 + 1]_vars

\* C1, amended: the metadata write of an upload flow appends exactly one
\* record, which the search with the empty term returns once, with the
\* blob's identifier and the file's name; and a flow in which every backend
\* call succeeded raises the displayed total by exactly 1 over the value it
\* has when the flow ends.
C1_UploadAddsOneRecordAndOne ==
  [][\A i \in DOMAIN calls :
       /\ (BackendExec(i) /\ calls[i].ctx.k = "handleUpload"
             /\ calls[i].op = "updatePictureDatabase")
            => /\ Len(documents') = Len(documents) + 1
               /\ SubSeq(documents', 1, Len(documents)) = documents
               /\ LET all == SearchIn(documents', <<>>)
                      mine == {k \in DOMAIN all :
                                 all[k].imageId = Get(calls[i].args.imageId)}
                  IN /\ Cardinality(mine) = 1
                     /\ \A k \in mine :
                          all[k].imageName = Get(calls[i].args.imageName)
       /\ (HandleUploadPersisted(i) /\ ~calls[i].failed)
            => totalImageNumber' = totalImageNumber + 1]_vars

\* A flow has run to its end with nothing failing: one blob, one record, and
\* the total one higher than the 0 it was at the selection.
C1_Witness ==
  /\ selections = 1
  /\ UploadFlows = {}
  /\ failures = 0
  /\ Cardinality(files) = 1
  /\ Len(documents) = 1
  /\ Len(SearchIn(documents, <<>>)) = 1
  /\ totalImageNumber = 1
  /\ InFlight("mount") # {}

\* C2: an upload flow whose existence check found the file's name ends
\* there: uploadPicture returns null and handleUpload returns, so no blob is
\* created, no record is written and the displayed total is left as it is.
C2_DuplicateNameRejected ==
  [][\A i \in DOMAIN calls :
       (/\ calls[i].ctx.k = "handleUpload"
        /\ calls[i].op = "uploadPicture"
        /\ calls[i].pc = 1
        /\ calls[i].resp.st = "ok"
        /\ calls[i].resp.total > 0
        /\ (HandleUploadUploaded(i) \/ FacadeResume(i)))
         => /\ calls' = Remove(calls, i)
            /\ files' = files
            /\ documents' = documents
            /\ totalImageNumber' = totalImageNumber]_vars

\* Two files were selected and both flows are over, nothing failed and
\* nothing was deleted, and the store holds one blob: the other selection
\* had the same name and was rejected.
C2_Witness ==
  /\ selections = 2
  /\ UploadFlows = {}
  /\ failures = 0
  /\ deletes = 0
  /\ Cardinality(files) = 1
  /\ Len(documents) = 1
  /\ totalImageNumber = 1
  /\ ~toUpload

\* C3: no two blobs of the blob store share a file name.
C3_UniqueBlobNames == \A f, g \in files : f.name = g.name => f = g

\* p is a prefix of s.
IsPrefixOf(p, s) == \E k \in 0..Len(s) : p = [j \in 1..k |-> s[j]]

\* C4: a fetchPictures(t) in which nothing failed returns the records of the
\* store whose imageName starts with t, each once and no other, in the
\* store's order; with the empty t that is every record.
C4_SearchReturnsThePrefixMatches ==
  (ret.op = "fetchPictures" /\ ~ret.failed)
    => /\ ~ret.threw
       /\ ret.val.t = "array"
       /\ \A k \in DOMAIN documents :
            IsPrefixOf(ret.args.query, documents[k].imageName)
              <=> \E j \in DOMAIN ret.val.docs :
                    ret.val.docs[j].documentId = documents[k].id
       /\ \A j \in DOMAIN ret.val.docs :
            \E k \in DOMAIN documents : ret.val.docs[j] = ToImage(documents[k])
       /\ \A j, k \in DOMAIN ret.val.docs :
            ret.val.docs[j].documentId = ret.val.docs[k].documentId => j = k
       /\ (ret.args.query = <<>> => Len(ret.val.docs) = Len(documents))

\* A search for "ab" over a store that holds "a" and "ab" returned one record.
C4_Witness ==
  /\ ret.op = "fetchPictures"
  /\ ~ret.failed
  /\ ret.args.query = StrAB
  /\ Len(documents) = 2
  /\ Len(ret.val.docs) = 1
  /\ ret.val.docs[1].imageName = StrAB

\* C5: once both backend calls of a deletePicture have succeeded, no record
\* has its documentId and no blob has the name of the blob it deleted, so
\* a later upload of that name passes the existence check.
C5_DeleteFreesTheName ==
  [][\A i \in DOMAIN calls :
       (/\ BackendExec(i)
        /\ calls[i].op = "deletePicture"
        /\ calls[i].pc = 2
        /\ calls[i].resp' .st = "ok")
         => /\ \A k \in DOMAIN documents' :
                 documents'[k].id # Get(calls[i].args.documentId)
            /\ \A f \in files :
                 f.id = Get(calls[i].args.imageId)
                   => listFiles(QueryEqual("name", f.name))'.total = 0]_vars

\* The inputs updatePictureDatabase rejects, at the time t of the call.
InvalidRecord(args, t) ==
  \/ args.imageId = None
  \/ args.imageName = None
  \/ args.createdAt = None
  \/ Get(args.createdAt) > t

\* C6: an updatePictureDatabase whose createdAt is later than the time of
\* the call, or which lacks one of its three inputs, awaits no backend
\* call (so it writes nothing) and returns undefined without throwing; no
\* write of such a call is ever in flight.
C6_InvalidRecordIsNotWritten ==
  /\ \A i \in DOMAIN calls :
       calls[i].op = "updatePictureDatabase" => ~InvalidRecord(calls[i].args, now)
  /\ (ret.op = "updatePictureDatabase" /\ InvalidRecord(ret.args, ret.at))
       => /\ ret.requests = 0
          /\ ~ret.threw
          /\ ret.val = Undefined

\* A record with a creation time in the future was handed in over a store
\* that holds a record, and all that came back is undefined.
C6_Witness ==
  /\ ret.op = "updatePictureDatabase"
  /\ ret.args.imageId # None
  /\ ret.args.imageName # None
  /\ ret.args.createdAt # None
  /\ Get(ret.args.createdAt) > ret.at
  /\ Len(documents) = 1
  /\ calls = <<>>

\* C7: debouncedSearchTerm changes only to the value searchImage has, and
\* only once searchImage has been left alone for the debounce delay; the
\* change leaves no timeout pending, and at most one timeout is pending at
\* any time, so a burst of keystrokes commits no intermediate value and is
\* committed once.  A fetch is issued only when a dependency of the fetch
\* effect has changed, once per change, with debouncedSearchTerm.
C7_DebounceCommitsTheFinalValueOnce ==
  [][/\ debouncedSearchTerm' # debouncedSearchTerm
          => /\ debouncedSearchTerm' = searchImage
             /\ now - lastKeyAt >= DebounceDelay
             /\ timers' = {}
     /\ Cardinality(timers') <= 1
     /\ Len(calls') > Len(calls)
          => \/ calls'[Len(calls')].ctx.k # "getAllImages"
             \/ /\ calls'[Len(calls')].args.query = debouncedSearchTerm
                /\ searchImage' = searchImage
                /\ fetchDeps # Deps
                /\ fetchDeps' = Deps']_vars

\* Two keystrokes half a second apart, "a" and then "ab": a second after
\* the last one "ab" is committed and fetched.
C7_Witness ==
  /\ keys = 2
  /\ lastKeyAt = TickMs
  /\ searchImage = StrAB
  /\ debouncedSearchTerm = StrAB
  /\ \E i \in InFlight("getAllImages") : calls[i].args.query = StrAB
  /\ \A i \in InFlight("getAllImages") : calls[i].args.query # StrA

\* C8: a getTotalPicturesCount in which nothing failed returns the number
\* of records in the store.
C8_CountIsTheNumberOfRecords ==
  (ret.op = "getTotalPicturesCount" /\ ~ret.failed)
    => /\ ~ret.threw
       /\ ret.val = NumberVal(Len(documents))

\* A file was uploaded, its record was written, and the count returned 1.
C8_Witness ==
  /\ ret.op = "getTotalPicturesCount"
  /\ ~ret.failed
  /\ ret.val = NumberVal(1)
  /\ Cardinality(files) = 1
  /\ Len(documents) = 1
  /\ \E f \in files : documents[1].imageId = f.id /\ documents[1].imageName = f.name

\* What each facade operation returns when a backend call of it failed.
Benign(op) ==
  CASE op = "getTotalPicturesCount" -> NumberVal(0)
    [] op = "fetchPictures" -> Undefined
    [] op = "uploadPicture" -> NullVal
    [] OTHER -> Undefined

\* C9: a facade operation in which a backend call failed does not throw: it
\* returns 0 (getTotalPicturesCount), undefined (fetchPictures), null
\* (uploadPicture) or nothing (updatePictureDatabase, deletePicture).
C9_FailuresAreNotPropagated ==
  ret.failed => /\ ~ret.threw
                /\ ret.val = Benign(ret.op)

\* A fetchPictures whose listDocuments failed has returned.
C9_Witness ==
  /\ ret.op = "fetchPictures"
  /\ ret.failed
  /\ failures = 1
  /\ ret.requests = 1

\* C10: a fetch that settles resets loading, whatever it returned; loading
\* is false whenever no fetch is in flight; and loading never stays true
\* for ever.
C10_LoadingIsReset ==
  /\ [](InFlight("getAllImages") = {} => ~loading)
  /\ [][\A i \in DOMAIN calls : GetAllImagesDone(i) => ~loading']_vars
  /\ (loading ~> ~loading)

\* The last fetch failed (the store holds two records, the count came back
\* and the list is empty), nothing is in flight, and loading is false.
C10_Witness ==
  /\ calls = <<>>
  /\ failures = 1
  /\ totalImageNumber = 2
  /\ debouncedSearchTerm = <<>>
  /\ Len(documents) = 2
  /\ imageList = <<>>
  /\ fetchDeps = Deps
  /\ ~loading

\* C11: every completed mutation re-arms the fetch trigger, so that a new
\* list fetch is issued after it: when an upload flow increments the total,
\* and when a delete action returns and flips refreshFetch, the dependencies
\* of the fetch effect differ from those its last run had, also when another
\* delete returned since that run.
C11_MutationRetriggersTheFetch ==
  [][/\ (\E i \in DOMAIN calls :
            HandleDeleteDone(i) /\ Resumed(calls[i]).k = "return")
          => Deps' # fetchDeps'
     /\ (\E i \in DOMAIN calls :
            (HandleUploadUploaded(i) \/ HandleUploadPersisted(i))
            /\ totalImageNumber' # totalImageNumber)
          => Deps' # fetchDeps']_vars

\* C12: overlapping fetches are not cancelled and the last response to
\* resolve wins: a new fetch leaves the earlier ones in flight, a settling
\* fetch leaves the others in flight, and it sets imageList to its own
\* response also when a fetch begun later is in flight or has settled.
FetchesInFlight == InFlight("getAllImages")
ResponseOf(c) ==
  IF c.resp.st = "ok"
  THEN [k \in 1..Len(c.resp.documents) |-> ToImage(c.resp.documents[k])]
  ELSE <<>>
C12_LastResolvedFetchWins ==
  [][/\ HomeRender =>
          /\ Len(calls') = Len(calls) + 1
          /\ \A j \in DOMAIN calls : calls'[j] = calls[j]
     /\ \A i \in DOMAIN calls : GetAllImagesDone(i) =>
          /\ imageList' = ResponseOf(calls[i])
          /\ \A j \in FetchesInFlight \ {i} :
               calls'[IF j < i THEN j ELSE j - 1] = calls[j]]_vars

\* Every call has resolved, nothing was deleted, nothing failed, the search
\* field is at rest, and the list shown is not the result of the current
\* debounced term: the fetch of an older term resolved last.
C12_Witness ==
  /\ calls = <<>>
  /\ Deps = fetchDeps
  /\ timers = {}
  /\ searchImage = debouncedSearchTerm
  /\ deletes = 0
  /\ failures = 0
  /\ imageList # SearchIn(documents, debouncedSearchTerm)

\* C13: deletePicture deletes the record first and the blob second.  A blob
\* leaves the store only by the second call of a deletePicture that has
\* passed a successful record deletion; a deletePicture whose record
\* deletion failed returns without a further call and without a change of
\* either store; one whose blob deletion failed returns with the record
\* gone and both stores as the failure left them; deletePicture never writes
\* a record; and with imageId or documentId absent it returns at once, no
\* call made and neither store changed.
DeleteCalls == {i \in DOMAIN calls : calls[i].op = "deletePicture"}
C13_DeleteRecordThenBlob ==
  [][/\ \A f \in files \ files' : \E i \in DeleteCalls :
          /\ calls[i].req = DeleteFile(f.id)
          /\ Get(calls[i].args.imageId) = f.id
          /\ calls[i].pc = 2
          /\ ~calls[i].failed
          /\ ~HasDocument(Get(calls[i].args.documentId))
     /\ \A i \in DeleteCalls :
          /\ calls[i].req.api \in {"deleteDocument", "deleteFile"}
          /\ calls[i].req.api = "deleteDocument" <=> calls[i].pc = 1
          /\ (calls[i].resp.st = "err" /\ calls[i].pc = 1) =>
               /\ ~ENABLED FacadeResume(i)
               /\ DirectReturn(i) => UNCHANGED backendVars
          /\ (calls[i].resp.st = "err" /\ calls[i].pc = 2) =>
               /\ ~HasDocument(Get(calls[i].args.documentId))
               /\ DirectReturn(i) => UNCHANGED backendVars
     /\ \A args \in DirectArgs("deletePicture") :
          (DirectCall("deletePicture", args)
             /\ (Falsy(args.imageId) \/ Falsy(args.documentId)))
          => UNCHANGED <<backendVars, calls>>]_vars

\* A deletePicture has returned after its record deletion succeeded and its
\* blob deletion failed: the blob is in the store and no record refers to it.
C13_Witness ==
  /\ ret.op = "deletePicture"
  /\ ret.failed
  /\ ret.requests = 2
  /\ HasFile(Get(ret.args.imageId))
  /\ ~HasDocument(Get(ret.args.documentId))
  /\ \A k \in DOMAIN documents : documents[k].imageId # Get(ret.args.imageId)

\* C14: when the metadata write of an upload flow fails, the flow ends with
\* its blob in the store, no record of it and no further call; a blob
\* without a record that no upload flow holds and no deletePicture is about
\* to delete stays in the store as it is; and an existence check executed
\* while such a blob has the file's name ends the flow without a blob.
HasRecord(f) == \E k \in DOMAIN documents : documents[k].imageId = f.id
Held(f) ==
  \E i \in UploadFlows :
    \/ calls[i].op = "updatePictureDatabase" /\ calls[i].args.imageId = Some(f.id)
    \/ /\ calls[i].op = "uploadPicture"
       /\ calls[i].pc = 2
       /\ calls[i].resp.st = "ok"
       /\ calls[i].resp.id = f.id
DeletionDue(f) ==
  \E i \in DeleteCalls :
    /\ calls[i].args.imageId = Some(f.id)
    /\ \/ calls[i].pc = 1 /\ calls[i].resp.st = "ok"
       \/ calls[i].pc = 2 /\ calls[i].resp.st = "none"
Orphaned(f) == f \in files /\ ~HasRecord(f) /\ ~Held(f) /\ ~DeletionDue(f)
C14_FailedWriteLeavesTheBlob ==
  [][/\ \A i \in UploadFlows :
          (/\ calls[i].op = "updatePictureDatabase"
           /\ calls[i].resp.st = "err"
           /\ HandleUploadPersisted(i))
            => /\ calls' = Remove(calls, i)
               /\ UNCHANGED backendVars
               /\ \E f \in files' :
                    f.id = Get(calls[i].args.imageId) /\ Orphaned(f)'
     /\ \A f \in files : Orphaned(f) => Orphaned(f)'
     /\ \A i \in UploadFlows :
          (/\ calls[i].op = "uploadPicture"
           /\ calls[i].pc = 1
           /\ BackendExec(i)
           /\ \E f \in files :
                Orphaned(f) /\ f.name = Get(calls[i].args.file).name)
            => /\ calls'[i].resp.total > 0
               /\ Resumed(calls[i])' = Return(NullVal)]_vars

\* The metadata write of the first flow failed and the other selection,
\* of the same name, was rejected: both flows are over, the store holds the
\* one blob, orphaned, and no record.
C14_Witness ==
  /\ selections = 2
  /\ UploadFlows = {}
  /\ failures = 1
  /\ deletes = 0
  /\ documents = <<>>
  /\ Cardinality(files) = 1
  /\ \A f \in files : Orphaned(f)

\* C15: an armed upload trigger is cleared at last, with the file
\* reference: every end of an upload flow (the flow returned after the
\* existence check, after the blob upload or after the metadata write,
\* whether the call succeeded, failed or found the name) sets toUpload to
\* false and image to null, and while no flow is in flight the trigger is
\* not armed and no file is referenced.
FlowEnds(i) ==
  /\ i \in UploadFlows
  /\ i \in DOMAIN calls
  /\ HandleUploadUploaded(i) \/ HandleUploadPersisted(i)
  /\ Len(calls') < Len(calls)
C15_TriggerIsCleared ==
  /\ [](UploadFlows = {} => ~toUpload /\ image = None)
  /\ [][\A i \in DOMAIN calls : FlowEnds(i) => ~toUpload' /\ image' = None]_vars
  /\ toUpload ~> (~toUpload /\ image = None)

\* A flow whose metadata write failed has ended and the trigger is clear.
C15_Witness ==
  /\ selections = 1
  /\ UploadFlows = {}
  /\ failures = 1
  /\ Cardinality(files) = 1
  /\ documents = <<>>
  /\ ~toUpload
  /\ image = None

\* C16: a fetch for which fetchPictures returned undefined (it failed) or an
\* empty array sets imageList to the empty sequence, whatever it held; one
\* for which it returned a non-empty array sets imageList to that array;
\* and every fetch started is a fetchPictures of debouncedSearchTerm, also
\* while searchImage differs from it.
C16_ResultsOfAFetch ==
  [][/\ \A i \in DOMAIN calls : GetAllImagesDone(i) =>
          LET val == Resumed(calls[i]).val
          IN /\ Resumed(calls[i]).k = "return"
             /\ calls[i].resp.st = "err" => val = Undefined
             /\ val.t \in {"undefined", "array"}
             /\ (val.t = "undefined" \/ val.docs = <<>>) => imageList' = <<>>
             /\ (val.t = "array" /\ val.docs # <<>>) => imageList' = val.docs
     /\ HomeRender =>
          /\ calls'[Len(calls')].op = "fetchPictures"
          /\ calls'[Len(calls')].ctx.k = "getAllImages"
          /\ calls'[Len(calls')].args.query = debouncedSearchTerm
          /\ calls'[Len(calls')].req =
               fetchPictures([NoArgs EXCEPT !.query = debouncedSearchTerm],
                             0, NoResp, now).req]_vars

\* Nothing was typed and nothing deleted, the count of 2 has arrived, both
\* fetches of the empty term have resolved and the one failure was in the
\* fetch that resolved last: the two cards shown before it are gone.
C16_Witness ==
  /\ keys = 0
  /\ deletes = 0
  /\ failures = 1
  /\ calls = <<>>
  /\ totalImageNumber = 2
  /\ Deps = fetchDeps
  /\ documents = SeedDocuments
  /\ imageList = <<>>

\* C17: every record of the document store refers to a blob that is in the
\* blob store, in every reachable state.
C17_RecordHasItsBlob ==
  \A k \in DOMAIN documents : HasFile(documents[k].imageId)

\* Two pictures were uploaded and one deleted, the blob deletion failing:
\* everything has settled, one record is left, with its blob, next to the
\* blob that lost its record.
C17_Witness ==
  /\ selections = 2
  /\ deletes = 1
  /\ failures = 1
  /\ calls = <<>>
  /\ Len(documents) = 1
  /\ Cardinality(files) = 2
  /\ \E f \in files : Orphaned(f)

\* C18: whenever no count, upload flow or delete action is in flight, the
\* total shown is the number of records of the document store.  (Stated for
\* the runs in which no backend call has failed, which is enough to refute
\* it.)
C18_TotalIsTheNumberOfRecords ==
  (/\ InFlight("mount") = {}
   /\ UploadFlows = {}
   /\ InFlight("handleDelete") = {}
   /\ failures = 0)
    => totalImageNumber = Len(documents)

\* C19: in every reachable state, loading is true if a list fetch is in
\* flight.
C19_LoadingWhileFetching == FetchesInFlight # {} => loading

\* C20: every file selection starts one uploadPicture call for the selected
\* file, also while an earlier flow is in flight and the trigger is already
\* armed; no other step starts an uploadPicture call; and no two
\* uploadPicture calls in flight are for the same selection.
UploadAttempts == {i \in UploadFlows : calls[i].op = "uploadPicture"}
AttemptedFiles == {calls[i].args.file : i \in UploadAttempts}
C20_OneUploadPerSelection ==
  /\ [][/\ \A n \in FileNames : FileSelect(n) =>
              /\ Len(calls') = Len(calls) + 1
              /\ \A j \in DOMAIN calls : calls'[j] = calls[j]
              /\ calls'[Len(calls')].op = "uploadPicture"
              /\ calls'[Len(calls')].ctx.k = "handleUpload"
              /\ calls'[Len(calls')].pc = 1
              /\ calls'[Len(calls')].args.file =
                   Some([name |-> n, sel |-> selections + 1])
              /\ calls'[Len(calls')].args.file \notin AttemptedFiles
        /\ ~(\E n \in FileNames : FileSelect(n)) =>
              /\ AttemptedFiles' \subseteq AttemptedFiles
              /\ Cardinality(UploadAttempts') <= Cardinality(UploadAttempts)]_vars
  /\ [](\A i, j \in UploadAttempts :
          i # j => calls[i].args.file # calls[j].args.file)

\* The second file was selected while the flow of the first awaits its
\* metadata write, and its own uploadPicture call is in flight.
C20_Witness ==
  /\ selections = 2
  /\ toUpload
  /\ \E i, j \in UploadFlows :
       /\ calls[i].op = "updatePictureDatabase"
       /\ calls[j].op = "uploadPicture"
       /\ Get(calls[j].args.file).sel = 2
       /\ image = calls[j].args.file

====
